---- MODULE Spec2Model ----
(***************************************************************************)
(* Matching engine of kevinrtai/matching: the deferred-acceptance solver   *)
(* (match/smp.py), preference completion (match/utils.py), the scoring     *)
(* functions (match/score.py), the Monte-Carlo controller                  *)
(* (match/main.py run_smp) and the weighted assignment solver              *)
(* (match/hungarian.py).                                                   *)
(*                                                                         *)
(* Dictionaries are functions whose DOMAIN is the key set, lists are       *)
(* sequences.  "women" are the proposers, "men" the receivers.             *)
(***************************************************************************)
EXTENDS Integers, Sequences, FiniteSets, TLC

VARIABLES
    w_prefs_i,  \* smp.solve argument: proposers' preference dict
    m_prefs_i,  \* smp.solve argument: receivers' preference dict
    w_prefs,    \* solve's working copy, consumed by pop(0)
    free,       \* list of free proposers
    done,       \* set of proposers whose list is used up
    matches,    \* dict receiver -> proposer
    pc,         \* position in solve: "start", "loop", "returned", "raised", "IndexError"
    women_prefs,    \* run_smp argument w_prefs: raw, possibly partial lists
    men_prefs,      \* run_smp argument m_prefs
    blacklist,      \* run_smp argument: dict proposer -> set of receivers
    args,           \* run_smp argument: n, weight, scorer, warper, boost
    w_c,            \* completed proposers' dict returned by complete
    m_c,            \* completed receivers' dict returned by complete
    reverse_matches,    \* what smp.solve returned in the current trial
    results,        \* list of trial records
    best,           \* None or the best match, keyed by proposer
    best_score,     \* None or the best overall score
    num_discarded,  \* number of discarded trials
    trial,          \* the loop variable i of run_smp: trials begun so far
    rpc,            \* position in run_smp
    hw_prefs,   \* hungarian.solve argument w_prefs
    hm_prefs,   \* hungarian.solve argument m_prefs
    women,      \* list(w_prefs.keys()): the proposers in the dict's key order
    men,        \* list(m_prefs.keys())
    weight,     \* hungarian.solve argument weight
    h_matches,  \* the returned dict proposer -> receiver
    h_score,    \* the returned total
    hpc,        \* position in hungarian.solve
    boost_x,    \* score.boost argument base_score
    boost_b,    \* score.boost argument b
    boost_out   \* None or what score.boost returned

solver_vars == <<w_prefs_i, m_prefs_i, w_prefs, free, done, matches, pc>>

controller_vars == <<women_prefs, men_prefs, blacklist, args, w_c, m_c,
                     reverse_matches, results, best, best_score, num_discarded,
                     trial, rpc>>

hungarian_vars == <<hw_prefs, hm_prefs, women, men, weight, h_matches, h_score, hpc>>

score_vars == <<boost_x, boost_b, boost_out>>

vars == <<solver_vars, controller_vars, hungarian_vars, score_vars>>

----------------------------------------------------------------------------
(* Identifier universes and bounds of the inputs                           *)

WomenIds == <<"A", "B", "C">>
MenIds == <<"X", "Y", "Z">>

\* longest preference list handed to solve in the malformed-input family
MaxListLen == 3

Range(s) == {s[i] : i \in DOMAIN s}

Prefix(seq, n) == {seq[i] : i \in 1..n}

\* all orderings of the finite set S, as sequences
Perms(S) == {p \in [1..Cardinality(S) -> S] : Range(p) = S}

\* all sequences over S of length at most k
SeqsUpTo(S, k) == UNION {[1..l -> S] : l \in 0..k}

NoDup(s) == \A i, j \in DOMAIN s : s[i] = s[j] => i = j

\* the empty dict
EmptyDict == <<>>

\* Python's None, and a value that is not None
None == <<>>
Some(x) == <<x>>

RECURSIVE SumOver(_, _)
SumOver(f, S) ==
    IF S = {} THEN 0
    ELSE LET x == CHOOSE y \in S : TRUE IN f[x] + SumOver(f, S \ {x})

----------------------------------------------------------------------------
(* match/smp.py                                                            *)

\* list.index(x), zero-based; the callers guarantee x is in the list
Index(list, x) == (CHOOSE i \in DOMAIN list :
                      list[i] = x /\ \A j \in 1..(i - 1) : list[j] # x) - 1

\* validate_prefs: TRUE when no exception is raised
validate_prefs(prefs, choices) ==
    \A k \in DOMAIN prefs : Range(prefs[k]) = choices

\* validate_input without the comparison of the two sizes
validate_input_nosize(m_prefs, w_prefs_arg) ==
    /\ validate_prefs(w_prefs_arg, DOMAIN m_prefs)
    /\ validate_prefs(m_prefs, DOMAIN w_prefs_arg)

\* validate_input: TRUE when no exception is raised
validate_input(m_prefs, w_prefs_arg) ==
    /\ Cardinality(DOMAIN w_prefs_arg) = Cardinality(DOMAIN m_prefs)
    /\ validate_prefs(w_prefs_arg, DOMAIN m_prefs)
    /\ validate_prefs(m_prefs, DOMAIN w_prefs_arg)

\* lines 20-21 as w_prefs = w_prefs_i: the loop pops from the caller's own lists
after_deepcopy_alias(obj, working) == working

\* lines 20-21: the loop works on deep copies, so whatever the working copy
\* has become, the object the caller passed holds what it held
after_deepcopy(obj, working) == obj

\* the state solve builds after validation, for one outcome of the shuffle
SolveState(w_in, order) ==
    [w_prefs |-> w_in, free |-> order, done |-> {}, matches |-> EmptyDict,
     pc |-> "loop"]

\* the state of a call that raised in validate_input: nothing was built
NotBuilt == [w_prefs |-> EmptyDict, free |-> <<>>, done |-> {},
             matches |-> EmptyDict, pc |-> "raised"]

\* while len(free) and len(done) < n
LoopCond(s) ==
    Len(s.free) # 0 /\ Cardinality(s.done) < Cardinality(DOMAIN s.w_prefs)

\* line 47 never true: the receiver keeps whoever proposed to him first
Jilts_never(m_prefs, m, w, w_prime) == FALSE

\* the comparison of line 47 turned round
Jilts_reversed(m_prefs, m, w, w_prime) ==
    Index(m_prefs[m], w) > Index(m_prefs[m], w_prime)

\* does receiver m prefer w to his current partner w_prime
Jilts(m_prefs, m, w, w_prime) ==
    Index(m_prefs[m], w) < Index(m_prefs[m], w_prime)

\* w_prefs[w][0] in place of pop(0): the entry is read and left in the list
Pop0_peek(list) == [item |-> Head(list), rest |-> list]

\* pop() in place of pop(0): the last entry is taken
Pop0_last(list) == [item |-> list[Len(list)], rest |-> SubSeq(list, 1, Len(list) - 1)]

\* list.pop(0): the item taken and the list left
Pop0(list) == [item |-> Head(list), rest |-> Tail(list)]

\* the loop body without line 49: the jilted proposer is not queued again
LoopBody_forgetJilted(s, m_prefs) ==
    LET w == Head(s.free)
        rest == Tail(s.free)
    IN  IF s.w_prefs[w] = <<>>
        THEN [s EXCEPT !.free = rest, !.pc = "IndexError"]
        ELSE
        LET m == Pop0(s.w_prefs[w]).item
            wp == [s.w_prefs EXCEPT ![w] = Pop0(@).rest]
            dn == IF wp[w] = <<>> THEN s.done \cup {w} ELSE s.done
        IN  IF m \notin DOMAIN s.matches
            THEN [s EXCEPT !.w_prefs = wp, !.free = rest, !.done = dn,
                           !.matches = (m :> w) @@ s.matches]
            ELSE LET w_prime == s.matches[m]
                 IN  IF Jilts(m_prefs, m, w, w_prime)
                     THEN [s EXCEPT !.w_prefs = wp, !.done = dn,
                                    !.free = rest,
                                    !.matches = [s.matches EXCEPT ![m] = w]]
                     ELSE [s EXCEPT !.w_prefs = wp, !.done = dn,
                                    !.free = Append(rest, w)]

\* one iteration of the while loop
LoopBody(s, m_prefs) ==
    LET w == Head(s.free)
        rest == Tail(s.free)
    IN  IF s.w_prefs[w] = <<>>
        THEN \* w_prefs[w].pop(0) on an empty list
             [s EXCEPT !.free = rest, !.pc = "IndexError"]
        ELSE
        LET m == Pop0(s.w_prefs[w]).item
            wp == [s.w_prefs EXCEPT ![w] = Pop0(@).rest]
            dn == IF wp[w] = <<>> THEN s.done \cup {w} ELSE s.done
        IN  IF m \notin DOMAIN s.matches
            THEN [s EXCEPT !.w_prefs = wp, !.free = rest, !.done = dn,
                           !.matches = (m :> w) @@ s.matches]
            ELSE LET w_prime == s.matches[m]
                 IN  IF Jilts(m_prefs, m, w, w_prime)
                     THEN [s EXCEPT !.w_prefs = wp, !.done = dn,
                                    !.free = Append(rest, w_prime),
                                    !.matches = [s.matches EXCEPT ![m] = w]]
                     ELSE [s EXCEPT !.w_prefs = wp, !.done = dn,
                                    !.free = Append(rest, w)]

\* the loop run to its end
RECURSIVE RunLoop(_, _)
RunLoop(s, m_prefs) ==
    IF s.pc = "loop"
    THEN IF LoopCond(s) THEN RunLoop(LoopBody(s, m_prefs), m_prefs)
         ELSE [s EXCEPT !.pc = "returned"]
    ELSE s

\* solve(w_prefs_i, m_prefs_i) for one outcome of the shuffle
solve(w_in, m_in, order) ==
    IF validate_input(m_in, w_in)
    THEN RunLoop(SolveState(w_in, order), m_in)
    ELSE NotBuilt

\* the solver's variables as one record
Cur == [w_prefs |-> w_prefs, free |-> free, done |-> done,
        matches |-> matches, pc |-> pc]

Become(s) ==
    /\ w_prefs' = s.w_prefs
    /\ free' = s.free
    /\ done' = s.done
    /\ matches' = s.matches
    /\ pc' = s.pc

----------------------------------------------------------------------------
(* Inputs of solve                                                         *)

\* complete, duplicate-free dicts over the first n proposers and receivers
ValidInputs(n) ==
    LET W == Prefix(WomenIds, n)
        M == Prefix(MenIds, n)
    IN  [w : [W -> Perms(M)], m : [M -> Perms(W)]]

\* arbitrary dicts over at most two agents a side: unequal sides, omissions,
\* outsiders, duplicates
AnyInputs(lw, lm) ==
    LET W2 == Prefix(WomenIds, 2)
        M2 == Prefix(MenIds, 2)
    IN  UNION {[w : [W -> SeqsUpTo(M2, lw)], m : [M -> SeqsUpTo(W2, lm)]] :
                  W \in SUBSET W2, M \in SUBSET M2}

SolveInputs ==
    ValidInputs(0) \cup ValidInputs(1) \cup ValidInputs(2) \cup ValidInputs(3)
    \cup AnyInputs(MaxListLen, 2) \cup AnyInputs(2, MaxListLen)

----------------------------------------------------------------------------
(* Specification of one call of smp.solve                                  *)

\* no call of solve is being followed step by step
SolverIdle ==
    /\ w_prefs_i = EmptyDict /\ m_prefs_i = EmptyDict
    /\ w_prefs = EmptyDict /\ free = <<>> /\ done = {} /\ matches = EmptyDict
    /\ pc = "idle"

\* run_smp is not running
ControllerIdle ==
    /\ women_prefs = EmptyDict /\ men_prefs = EmptyDict
    /\ blacklist = EmptyDict /\ args = EmptyDict
    /\ w_c = EmptyDict /\ m_c = EmptyDict /\ reverse_matches = EmptyDict
    /\ results = <<>> /\ best = None /\ best_score = None
    /\ num_discarded = 0 /\ trial = 0 /\ rpc = "idle"

\* hungarian.solve is not running
HungarianIdle ==
    /\ hw_prefs = EmptyDict /\ hm_prefs = EmptyDict
    /\ women = <<>> /\ men = <<>> /\ weight = 0
    /\ h_matches = EmptyDict /\ h_score = 0 /\ hpc = "idle"

\* score.boost is not being called
ScoreIdle == boost_x = 0 /\ boost_b = 0 /\ boost_out = None

Init ==
    /\ \E in \in SolveInputs : w_prefs_i = in.w /\ m_prefs_i = in.m
    /\ w_prefs = EmptyDict
    /\ free = <<>>
    /\ done = {}
    /\ matches = EmptyDict
    /\ pc = "start"
    /\ ControllerIdle
    /\ HungarianIdle
    /\ ScoreIdle

\* smp.py line 17: validate_input raises
Raise ==
    /\ pc = "start"
    /\ ~validate_input(m_prefs_i, w_prefs_i)
    /\ Become(NotBuilt)
    /\ UNCHANGED <<w_prefs_i, m_prefs_i, controller_vars, hungarian_vars, score_vars>>

\* smp.py lines 17-30: validation passes, copies and the shuffled queue are made
Build ==
    /\ pc = "start"
    /\ validate_input(m_prefs_i, w_prefs_i)
    /\ \E order \in Perms(DOMAIN w_prefs_i) :
          Become(SolveState(w_prefs_i, order))
    /\ UNCHANGED <<w_prefs_i, m_prefs_i, controller_vars, hungarian_vars, score_vars>>

\* smp.py lines 32-51: one proposal
Propose ==
    /\ pc = "loop"
    /\ LoopCond(Cur)
    /\ Become(LoopBody(Cur, m_prefs_i))
    /\ w_prefs_i' = after_deepcopy(w_prefs_i, LoopBody(Cur, m_prefs_i).w_prefs)
    /\ UNCHANGED <<m_prefs_i, controller_vars, hungarian_vars, score_vars>>

\* smp.py lines 32, 53: the loop condition fails and matches is returned
Return ==
    /\ pc = "loop"
    /\ ~LoopCond(Cur)
    /\ pc' = "returned"
    /\ UNCHANGED <<w_prefs_i, m_prefs_i, w_prefs, free, done, matches,
                   controller_vars, hungarian_vars, score_vars>>

Next == Raise \/ Build \/ Propose \/ Return

Spec == Init /\ [][Next]_vars

----------------------------------------------------------------------------
(* Properties of smp.solve                                                 *)

\* every list is a duplicate-free ranking of the whole opposite side, and the
\* two sides have the same size
WellFormed(w_in, m_in) ==
    /\ Cardinality(DOMAIN w_in) = Cardinality(DOMAIN m_in)
    /\ \A w \in DOMAIN w_in : NoDup(w_in[w]) /\ Range(w_in[w]) = DOMAIN m_in
    /\ \A m \in DOMAIN m_in : NoDup(m_in[m]) /\ Range(m_in[m]) = DOMAIN w_in

\* p and r would both rather be with each other than with what mt gives them
BlockingPair(w_in, m_in, mt, p, r) ==
    LET held == {x \in DOMAIN mt : mt[x] = p}
    IN  /\ r \notin held
        /\ \/ held = {}
           \/ \E x \in held : Index(w_in[p], r) < Index(w_in[p], x)
        /\ \/ r \notin DOMAIN mt
           \/ Index(m_in[r], p) < Index(m_in[r], mt[r])

Stable(w_in, m_in, mt) ==
    \A p \in DOMAIN w_in, r \in DOMAIN m_in : ~BlockingPair(w_in, m_in, mt, p, r)

\* mt maps the receivers one-to-one onto the proposers
Bijection(w_in, m_in, mt) ==
    /\ DOMAIN mt = DOMAIN m_in
    /\ Range(mt) = DOMAIN w_in
    /\ \A x, y \in DOMAIN mt : mt[x] = mt[y] => x = y

\* C1: when solve returns for complete duplicate-free dicts of equal size,
\* whatever the shuffled queue order was, the returned match has no blocking
\* pair.
C1_Stability ==
    (pc = "returned" /\ WellFormed(w_prefs_i, m_prefs_i))
        => Stable(w_prefs_i, m_prefs_i, matches)

\* a returned run of size 3 in which some proposer did not keep her first
\* choice, so that proposals were refused or partners replaced on the way
C1_Witness ==
    /\ pc = "returned"
    /\ WellFormed(w_prefs_i, m_prefs_i)
    /\ Cardinality(DOMAIN w_prefs_i) = 3
    /\ \E m \in DOMAIN matches : w_prefs_i[matches[m]][1] # m

\* C2: when solve returns for complete dicts of equal size, the returned
\* dict has exactly the receivers as keys and maps them one-to-one onto the
\* proposers.
C2_Bijection ==
    (pc = "returned" /\ WellFormed(w_prefs_i, m_prefs_i))
        => Bijection(w_prefs_i, m_prefs_i, matches)

\* a returned run of size 3 in which some proposer went back to the queue:
\* she has made at least two proposals
C2_Witness ==
    /\ pc = "returned"
    /\ WellFormed(w_prefs_i, m_prefs_i)
    /\ Cardinality(DOMAIN matches) = 3
    /\ \E w \in DOMAIN w_prefs_i : Len(w_prefs_i[w]) - Len(w_prefs[w]) >= 2

\* the example of the specification
ExampleW == ("A" :> <<"X", "Y">>) @@ ("B" :> <<"Y", "X">>)
ExampleM == ("X" :> <<"B", "A">>) @@ ("Y" :> <<"A", "B">>)
ProposerPick == ("X" :> "A") @@ ("Y" :> "B")
ReceiverPick == ("X" :> "B") @@ ("Y" :> "A")
IsExample == w_prefs_i = ExampleW /\ m_prefs_i = ExampleM

\* C3 as stated: on the example solve returns A with Y and B with X, the only
\* stable match.
C3_Original ==
    (pc = "returned" /\ IsExample)
        => /\ matches = ReceiverPick
           /\ \A mt \in [DOMAIN ExampleM -> DOMAIN ExampleW] :
                 (Bijection(ExampleW, ExampleM, mt) /\ Stable(ExampleW, ExampleM, mt))
                     => mt = ReceiverPick

\* C3 amended: the example has two stable matches, and for every queue order
\* solve returns the one in which both proposers get their first choice,
\* A with X and B with Y.
C3_Amended ==
    (pc = "returned" /\ IsExample)
        => /\ matches = ProposerPick
           /\ Stable(ExampleW, ExampleM, ProposerPick)
           /\ Stable(ExampleW, ExampleM, ReceiverPick)

C3_Witness == pc = "returned" /\ IsExample /\ Cardinality(DOMAIN matches) = 2

\* a defect the validation is specified to reject, other than a duplicate
Malformed(w_in, m_in) ==
    \/ Cardinality(DOMAIN w_in) # Cardinality(DOMAIN m_in)
    \/ \E w \in DOMAIN w_in : Range(w_in[w]) # DOMAIN m_in
    \/ \E m \in DOMAIN m_in : Range(m_in[m]) # DOMAIN w_in

\* C4: a call whose dicts differ in size, or in which some list omits a
\* member of the other side or names an outsider, ends raised, and neither
\* the copies, the queue, the done set nor the match table were made.
C4_ValidationFirst ==
    (pc # "start" /\ Malformed(w_prefs_i, m_prefs_i))
        => /\ pc = "raised"
           /\ w_prefs = EmptyDict /\ free = <<>> /\ done = {}
           /\ matches = EmptyDict

\* a raised call whose sides have the same size: a list omits someone or
\* names an outsider
C4_Witness ==
    /\ pc = "raised"
    /\ Cardinality(DOMAIN w_prefs_i) = 2
    /\ Cardinality(DOMAIN m_prefs_i) = 2
    /\ \E w \in DOMAIN w_prefs_i : DOMAIN m_prefs_i \ Range(w_prefs_i[w]) # {}

HasDuplicate(w_in, m_in) ==
    \/ \E w \in DOMAIN w_in : ~NoDup(w_in[w])
    \/ \E m \in DOMAIN m_in : ~NoDup(m_in[m])

\* C5: a call in which some preference list holds an identifier twice ends
\* raised, also when the list's set of entries is the whole other side.
C5_DuplicateRejected ==
    (pc # "start" /\ HasDuplicate(w_prefs_i, m_prefs_i)) => pc = "raised"

----------------------------------------------------------------------------
(* match/score.py; a float is a whole number of 1/Scale units and every    *)
(* operation rounds toward zero                                            *)

\* 1.0; a multiple of every list length up to 4, so that frac is exact
Scale == 12 * 1000

FMul(a, b) == (a * b) \div Scale

\* np.exp on [0, 1]: the power series, to the precision of the unit
RECURSIVE ExpSeries(_, _, _)
ExpSeries(x, k, term) ==
    IF term = 0 THEN 0
    ELSE term + ExpSeries(x, k + 1, (term * x) \div (k * Scale))

Exp(x) == ExpSeries(x, 1, Scale)

\* np.exp(1)
ExpOne == Exp(Scale)

one_zero(match, prefs) == IF match \in Range(prefs) THEN Scale ELSE 0

frac(match, prefs) ==
    IF match \notin Range(prefs) THEN 0
    ELSE ((Len(prefs) - Index(prefs, match)) * Scale) \div Len(prefs)

\* significant bits of a float in the model; a Python float has 53
Precision == 24

RECURSIVE Pow2(_)
Pow2(k) == IF k = 0 THEN 1 ELSE 2 * Pow2(k - 1)

\* the spacing of the floats around v >= 0, in units
RECURSIVE Ulp(_)
Ulp(v) == IF v < Pow2(Precision) THEN 1 ELSE 2 * Ulp(v \div 2)

\* the float nearest to v >= 0, ties to the even significand
RoundToFloat(v) ==
    LET u == Ulp(v)
        q == v \div u
        r == v % u
    IN  IF 2 * r < u \/ (2 * r = u /\ q % 2 = 0) THEN q * u ELSE (q + 1) * u

\* Python's + on two floats: the exact sum, rounded
FAdd(x, y) ==
    IF x + y >= 0 THEN RoundToFloat(x + y) ELSE 0 - RoundToFloat(0 - (x + y))

\* line 55 with >= in place of >: a zero score is boosted too
boost_zeroBoosted(base_score, b) == IF base_score >= 0 THEN FAdd(base_score, b) ELSE 0

boost(base_score, b) == IF base_score > 0 THEN FAdd(base_score, b) ELSE 0

identity(base_score) == base_score

exponential(base_score) ==
    ((Exp(base_score) - Scale) * Scale) \div (ExpOne - Scale)

\* main.py: the dicts scorers and warpers, applied
scorers(name, match, prefs) ==
    IF name = "one_zero" THEN one_zero(match, prefs) ELSE frac(match, prefs)

warpers(name, base_score) ==
    IF name = "identity" THEN identity(base_score) ELSE exponential(base_score)

score(match, prefs, score_fn, warp_fn, b) ==
    boost(warpers(warp_fn, scorers(score_fn, match, prefs)), b)

score_exponential(match, prefs) == score(match, prefs, "frac", "exponential", Scale)

\* score_assignment: the per-agent scores and their sum
score_assignment(mt, prefs, score_fn, warp_fn, b) ==
    LET scores == [x \in DOMAIN mt |-> score(mt[x], prefs[x], score_fn, warp_fn, b)]
    IN  [scores |-> scores, total |-> SumOver(scores, DOMAIN scores)]

----------------------------------------------------------------------------
(* Specification of one call of score.boost                                *)

\* largest exponent of the powers of two among the arguments
MaxExponent == Precision + 1

\* magnitudes of the arguments: zero, the scores 1/2 and 1, and the powers of
\* two up to the size at which floats are spaced two units apart
Magnitudes ==
    {0, Scale \div 2, Scale} \cup {Pow2(k) : k \in 0..MaxExponent}

InitBoost ==
    /\ boost_x \in Magnitudes \cup {0 - v : v \in Magnitudes}
    /\ boost_b \in Magnitudes
    /\ boost_out = None
    /\ SolverIdle
    /\ ControllerIdle
    /\ HungarianIdle

\* score.py lines 45-55: boost is called and returns
BoostCall ==
    /\ boost_out = None
    /\ boost_out' = Some(boost(boost_x, boost_b))
    /\ UNCHANGED <<boost_x, boost_b, solver_vars, controller_vars, hungarian_vars>>

NextBoost == BoostCall

SpecBoost == InitBoost /\ [][NextBoost]_vars

----------------------------------------------------------------------------
(* match/utils.py                                                          *)

\* line 38 without the subtraction of the entries already ranked
remaining_choices_all(prefs, choices) == choices

remaining_choices(prefs, choices) == choices \ Range(prefs)

\* complete_prefs for one outcome perm of np.random.permutation
complete_prefs(prefs, perm) == prefs \o perm

\* line 39 as prefs.extend(...): the supplied list itself is completed
after_concat_extend(prefs, out) == out

\* line 39: prefs + list(...) builds a new list, so the supplied list holds
\* what it held whatever the completed list out is
after_concat(prefs, out) == prefs

\* the lists complete_prefs can return
complete_prefs_outcomes(prefs, choices) ==
    {complete_prefs(prefs, perm) : perm \in Perms(remaining_choices(prefs, choices))}

\* the dicts one dict comprehension of complete can build
complete_side(prefs, choices) ==
    LET any == UNION {complete_prefs_outcomes(prefs[k], choices) : k \in DOMAIN prefs}
    IN  {c \in [DOMAIN prefs -> any] :
            \A k \in DOMAIN prefs : c[k] \in complete_prefs_outcomes(prefs[k], choices)}

\* the pairs (w_prefs_c, m_prefs_c) complete can return
complete(w_raw, m_raw) ==
    [w : complete_side(w_raw, DOMAIN m_raw), m : complete_side(m_raw, DOMAIN w_raw)]

----------------------------------------------------------------------------
(* match/main.py run_smp                                                   *)

\* most trials of one run
MaxTrials == 2

\* matches = {reverse_matches[m]: m for m in reverse_matches}
Invert(rm) == [w \in Range(rm) |-> CHOOSE m \in DOMAIN rm : rm[m] = w]

\* the blacklist loop with the flag overwritten for every proposer: TRUE only
\* when every pair is blacklisted
InBlacklist_every(mt, bl) ==
    \A w \in DOMAIN mt : w \in DOMAIN bl /\ mt[w] \in bl[w]

\* the blacklist loop: TRUE when the trial is thrown out
InBlacklist(mt, bl) ==
    \E w \in DOMAIN mt : w \in DOMAIN bl /\ mt[w] \in bl[w]

compute_score(mt, prefs, a) == score_assignment(mt, prefs, a.scorer, a.warper, a.boost)

Overall(w_total, m_total, a, problem_size) ==
    (FMul(a.weight, w_total) + FMul(Scale - a.weight, m_total)) \div problem_size

\* lines 135-136 with the completed dicts w_c and m_c in place of the supplied
TrialRecord_completed(wc, mc, mt, rm, w_raw, m_raw, a) ==
    LET ws == compute_score(mt, wc, a)
        ms == compute_score(rm, mc, a)
    IN  [w_c |-> wc, m_c |-> mc, match |-> mt,
         overall |-> Overall(ws.total, ms.total, a, Cardinality(DOMAIN w_raw)),
         w_scores |-> ws.scores, m_scores |-> ms.scores]

\* the dict appended to results
TrialRecord(wc, mc, mt, rm, w_raw, m_raw, a) ==
    LET ws == compute_score(mt, w_raw, a)
        ms == compute_score(rm, m_raw, a)
    IN  [w_c |-> wc, m_c |-> mc, match |-> mt,
         overall |-> Overall(ws.total, ms.total, a, Cardinality(DOMAIN w_raw)),
         w_scores |-> ws.scores, m_scores |-> ms.scores]

\* line 141 with >= in place of >
Improves_orEqual(overall, bs) == bs = None \/ overall >= bs[1]

\* if best_score == None or overall > best_score
Improves(overall, bs) == bs = None \/ overall > bs[1]

\* what one trial can draw: the completion and, for each shuffle, solve's end
\* raw_w and raw_m are the supplied dicts as complete leaves them, w_c the
\* completed proposers' dict as solve leaves it
TrialDraws ==
    {LET sol == solve(c.w, c.m, order)
     IN  [raw_w |-> [w \in DOMAIN women_prefs |-> after_concat(women_prefs[w], c.w[w])],
          raw_m |-> [m \in DOMAIN men_prefs |-> after_concat(men_prefs[m], c.m[m])],
          w_c |-> IF sol.pc = "raised" THEN c.w
                  ELSE after_deepcopy(c.w, sol.w_prefs),
          m_c |-> c.m, sol |-> sol] :
        c \in complete(women_prefs, men_prefs),
        order \in Perms(DOMAIN women_prefs)}

\* line 160 raising as soon as one trial was discarded
AllDiscarded_any(nd, n) == nd > 0

\* line 160: if num_discarded == args.n
AllDiscarded(nd, n) == nd = n

\* lines 116-121: smp.solve raises and the exception leaves run_smp
TrialRaises ==
    /\ rpc = "loop" /\ trial < args.n
    /\ \E t \in TrialDraws :
          /\ t.sol.pc = "raised"
          /\ w_c' = t.w_c /\ m_c' = t.m_c
          /\ women_prefs' = t.raw_w /\ men_prefs' = t.raw_m
    /\ trial' = trial + 1
    /\ rpc' = "error"
    /\ UNCHANGED <<blacklist, args, reverse_matches,
                   results, best, best_score, num_discarded, solver_vars,
                   hungarian_vars, score_vars>>

\* lines 116-132 without line 131: the trial is dropped and not counted
TrialDiscard_uncounted ==
    /\ rpc = "loop" /\ trial < args.n
    /\ \E t \in TrialDraws :
          /\ t.sol.pc = "returned"
          /\ InBlacklist(Invert(t.sol.matches), blacklist)
          /\ w_c' = t.w_c /\ m_c' = t.m_c
          /\ women_prefs' = t.raw_w /\ men_prefs' = t.raw_m
          /\ reverse_matches' = t.sol.matches
    /\ trial' = trial + 1
    /\ UNCHANGED <<blacklist, args, results, best, best_score, rpc,
                   num_discarded, solver_vars, hungarian_vars, score_vars>>

\* lines 116-132: the match holds a blacklisted pair
TrialDiscard ==
    /\ rpc = "loop" /\ trial < args.n
    /\ \E t \in TrialDraws :
          /\ t.sol.pc = "returned"
          /\ InBlacklist(Invert(t.sol.matches), blacklist)
          /\ w_c' = t.w_c /\ m_c' = t.m_c
          /\ women_prefs' = t.raw_w /\ men_prefs' = t.raw_m
          /\ reverse_matches' = t.sol.matches
    /\ num_discarded' = num_discarded + 1
    /\ trial' = trial + 1
    /\ UNCHANGED <<blacklist, args, results, best,
                   best_score, rpc, solver_vars,
                   hungarian_vars, score_vars>>

\* lines 116-152: the match is scored, compared with the best and recorded
TrialKeep ==
    /\ rpc = "loop" /\ trial < args.n
    /\ \E t \in TrialDraws :
          /\ t.sol.pc = "returned"
          /\ ~InBlacklist(Invert(t.sol.matches), blacklist)
          /\ LET mt == Invert(t.sol.matches)
                 rec == TrialRecord(t.w_c, t.m_c, mt, t.sol.matches,
                                    t.raw_w, t.raw_m, args)
             IN  /\ w_c' = t.w_c /\ m_c' = t.m_c
                 /\ women_prefs' = t.raw_w /\ men_prefs' = t.raw_m
                 /\ reverse_matches' = t.sol.matches
                 /\ IF Improves(rec.overall, best_score)
                    THEN best_score' = Some(rec.overall) /\ best' = Some(mt)
                    ELSE UNCHANGED <<best_score, best>>
                 /\ results' = Append(results, rec)
    /\ trial' = trial + 1
    /\ UNCHANGED <<blacklist, args, num_discarded, rpc,
                   solver_vars,
                   hungarian_vars, score_vars>>

\* lines 160-161: every trial was discarded
Exhausted ==
    /\ rpc = "loop" /\ trial = args.n
    /\ AllDiscarded(num_discarded, args.n)
    /\ rpc' = "exhausted"
    /\ UNCHANGED <<women_prefs, men_prefs, blacklist, args, w_c, m_c,
                   reverse_matches, results, best, best_score, num_discarded,
                   trial, solver_vars,
                   hungarian_vars, score_vars>>

\* lines 160-186: the best match is reported and the output dict saved
Report ==
    /\ rpc = "loop" /\ trial = args.n
    /\ ~AllDiscarded(num_discarded, args.n)
    /\ rpc' = "done"
    /\ UNCHANGED <<women_prefs, men_prefs, blacklist, args, w_c, m_c,
                   reverse_matches, results, best, best_score, num_discarded,
                   trial, solver_vars,
                   hungarian_vars, score_vars>>

\* duplicate-free lists over part or all of S
PartialLists(S) == {l \in SeqsUpTo(S, Cardinality(S)) : NoDup(l)}

\* blacklists as read_blacklist builds them: no key has an empty set
Blacklists(W, M) ==
    UNION {[K -> (SUBSET M) \ {{}}] : K \in SUBSET W}

Scorers == {"one_zero", "frac"}
Warpers == {"identity", "exponential"}
Boosts == {0, Scale}
Weights == {0, Scale \div 2, Scale}

ArgsSet == [n : 0..MaxTrials, weight : Weights, scorer : Scorers,
            warper : Warpers, boost : Boosts]

\* the command line defaults, but for the number of trials
DefaultArgs == {a \in ArgsSet : a.weight = Scale \div 2 /\ a.scorer = "one_zero"
                               /\ a.warper = "identity" /\ a.boost = 0}

\* every scoring configuration at the default weight, and the default
\* scoring at every weight
SomeArgs == {a \in ArgsSet : a.weight = Scale \div 2
                            \/ (a.scorer = "one_zero" /\ a.warper = "identity"
                                /\ a.boost = 0)}

RawPrefs(W, M) == [w : [W -> PartialLists(M)], m : [M -> PartialLists(W)]]

\* the runs of size 2, the receivers being named so that the first proposer's
\* first choice, if she names one, is the first receiver
RawPrefs2 ==
    {in \in RawPrefs(Prefix(WomenIds, 2), Prefix(MenIds, 2)) :
        in.w[WomenIds[1]] = <<>> \/ in.w[WomenIds[1]][1] = MenIds[1]}

\* runs of size 1 with every configuration and blacklist, runs of size 2 with
\* every blacklist or with several configurations, runs with sides of unequal
\* size
ControllerInputs ==
    LET W1 == Prefix(WomenIds, 1)
        M1 == Prefix(MenIds, 1)
        W2 == Prefix(WomenIds, 2)
        M2 == Prefix(MenIds, 2)
    IN  [prefs : RawPrefs(W1, M1), blacklist : Blacklists(W1, M1), args : ArgsSet]
        \cup [prefs : RawPrefs2, blacklist : Blacklists(W2, M2), args : DefaultArgs]
        \cup [prefs : RawPrefs2, blacklist : {EmptyDict}, args : SomeArgs]
        \cup [prefs : RawPrefs(W2, M1) \cup RawPrefs(W1, M2),
              blacklist : {EmptyDict}, args : DefaultArgs]

InitController ==
    /\ \E in \in ControllerInputs :
          /\ women_prefs = in.prefs.w /\ men_prefs = in.prefs.m
          /\ blacklist = in.blacklist /\ args = in.args
    /\ w_c = EmptyDict /\ m_c = EmptyDict /\ reverse_matches = EmptyDict
    /\ results = <<>> /\ best = None /\ best_score = None
    /\ num_discarded = 0 /\ trial = 0
    /\ rpc = "loop"
    /\ SolverIdle
    /\ HungarianIdle
    /\ ScoreIdle

NextController == TrialRaises \/ TrialDiscard \/ TrialKeep \/ Exhausted \/ Report

SpecController == InitController /\ [][NextController]_vars

----------------------------------------------------------------------------
(* One call of utils.complete                                              *)

InitComplete ==
    /\ \E in \in AnyInputs(MaxListLen, 2) \cup AnyInputs(2, MaxListLen) :
          women_prefs = in.w /\ men_prefs = in.m
    /\ blacklist = EmptyDict /\ args = EmptyDict
    /\ w_c = EmptyDict /\ m_c = EmptyDict /\ reverse_matches = EmptyDict
    /\ results = <<>> /\ best = None /\ best_score = None
    /\ num_discarded = 0 /\ trial = 0
    /\ rpc = "raw"
    /\ SolverIdle
    /\ HungarianIdle
    /\ ScoreIdle

\* utils.py lines 6-25
Complete ==
    /\ rpc = "raw"
    /\ \E c \in complete(women_prefs, men_prefs) :
          /\ w_c' = c.w /\ m_c' = c.m
          /\ women_prefs' = [w \in DOMAIN women_prefs |->
                                 after_concat(women_prefs[w], c.w[w])]
          /\ men_prefs' = [m \in DOMAIN men_prefs |->
                               after_concat(men_prefs[m], c.m[m])]
    /\ rpc' = "completed"
    /\ UNCHANGED <<blacklist, args, reverse_matches,
                   results, best, best_score, num_discarded, trial, solver_vars,
                   hungarian_vars, score_vars>>

NextComplete == Complete

SpecComplete == InitComplete /\ [][NextComplete]_vars

----------------------------------------------------------------------------
(* Properties of complete                                                  *)

\* a duplicate-free list of identifiers of the opposite side
Supplied(list, choices) == NoDup(list) /\ Range(list) \subseteq choices

\* what C6 says of one agent's completed list
Completed(list, out, choices) ==
    /\ Len(out) >= Len(list)
    /\ SubSeq(out, 1, Len(list)) = list
    /\ \A x \in choices : Cardinality({k \in DOMAIN out : out[k] = x}) = 1
    /\ Range(out) = choices
    /\ LET suffix == SubSeq(out, Len(list) + 1, Len(out))
       IN  NoDup(suffix) /\ Range(suffix) = choices \ Range(list)

\* C6: complete gives every agent whose supplied list is a duplicate-free
\* list of opposite-side identifiers a list that starts with the supplied list,
\* names every opposite-side identifier exactly once and ends with an ordering
\* of exactly the missing ones; when all lists are so and the sides have the
\* same size, the completed dicts pass validate_input.
C6_Completion ==
    rpc = "completed" =>
        /\ DOMAIN w_c = DOMAIN women_prefs /\ DOMAIN m_c = DOMAIN men_prefs
        /\ \A w \in DOMAIN women_prefs :
              Supplied(women_prefs[w], DOMAIN men_prefs)
                  => Completed(women_prefs[w], w_c[w], DOMAIN men_prefs)
        /\ \A m \in DOMAIN men_prefs :
              Supplied(men_prefs[m], DOMAIN women_prefs)
                  => Completed(men_prefs[m], m_c[m], DOMAIN women_prefs)
        /\ ( /\ Cardinality(DOMAIN women_prefs) = Cardinality(DOMAIN men_prefs)
             /\ \A w \in DOMAIN women_prefs : Supplied(women_prefs[w], DOMAIN men_prefs)
             /\ \A m \in DOMAIN men_prefs : Supplied(men_prefs[m], DOMAIN women_prefs) )
           => validate_input(m_c, w_c)

\* two agents a side, all lists well formed, one proposer with an empty list
\* that got both receivers appended, one receiver with a one-entry list
C6_Witness ==
    /\ rpc = "completed"
    /\ Cardinality(DOMAIN women_prefs) = 2 /\ Cardinality(DOMAIN men_prefs) = 2
    /\ \A w \in DOMAIN women_prefs : Supplied(women_prefs[w], DOMAIN men_prefs)
    /\ \A m \in DOMAIN men_prefs : Supplied(men_prefs[m], DOMAIN women_prefs)
    /\ \E w \in DOMAIN women_prefs : women_prefs[w] = <<>> /\ Len(w_c[w]) = 2
    /\ \E m \in DOMAIN men_prefs : Len(men_prefs[m]) = 1 /\ Len(m_c[m]) = 2

----------------------------------------------------------------------------
(* Properties of run_smp                                                   *)

\* the proposer-keyed match mt pairs some proposer with a receiver that her
\* blacklist entry forbids
Forbidden(mt) ==
    \E w \in DOMAIN mt : \E m \in Range(mt) :
        mt[w] = m /\ w \in DOMAIN blacklist /\ m \in blacklist[w]

\* the proposer-keyed view of what solve returned in the trial just made
TrialMatch(rm) == [w \in Range(rm) |-> CHOOSE m \in DOMAIN rm : rm[m] = w]

NothingForbiddenKept ==
    /\ \A k \in DOMAIN results : ~Forbidden(results[k].match)
    /\ best # None => ~Forbidden(best[1])

DiscardedTrialLeavesNoTrace ==
    (trial' = trial + 1 /\ rpc' = "loop" /\ Forbidden(TrialMatch(reverse_matches')))
        => /\ num_discarded' = num_discarded + 1
           /\ UNCHANGED <<results, best, best_score>>

\* C7: a trial whose match pairs a proposer with a receiver in her blacklist
\* entry adds one to the discard counter and leaves the history, the best
\* match and the best score as they were; and at all times no match in the
\* history, nor the best match, holds a blacklisted pair.
C7_BlacklistFilter ==
    [](NothingForbiddenKept) /\ [][DiscardedTrialLeavesNoTrace]_vars

\* a run of size 2 in which one trial was kept and a later one discarded
C7_Witness ==
    /\ rpc = "loop"
    /\ Cardinality(DOMAIN women_prefs) = 2
    /\ trial = 2 /\ num_discarded = 1 /\ Len(results) = 1
    /\ Forbidden(TrialMatch(reverse_matches))
    /\ best = Some(results[1].match)

\* some blacklisted pair is in the match of every trial the run can make
ForcedForbiddenPair ==
    \E w \in DOMAIN blacklist : \E m \in blacklist[w] :
        \A t \in TrialDraws :
            /\ t.sol.pc = "returned"
            /\ m \in DOMAIN t.sol.matches
            /\ t.sol.matches[m] = w

\* C8: the run ends in the exhaustion error exactly when the discard counter
\* equals N, and only after N trials; a run that ends without it has a best
\* match and a best score; a run in which a blacklisted pair is forced ends
\* in the error with all N trials discarded.
C8_Exhaustion ==
    /\ rpc = "exhausted" => (num_discarded = args.n /\ trial = args.n)
    /\ rpc = "done" => /\ trial = args.n
                       /\ num_discarded # args.n
                       /\ best # None /\ best_score # None
    /\ (rpc \in {"done", "exhausted"} /\ ForcedForbiddenPair)
           => (rpc = "exhausted" /\ num_discarded = args.n)

\* two trials of a run of size 2, both discarded because the blacklisted pair
\* is in every match, then the error
C8_Witness ==
    /\ rpc = "exhausted"
    /\ args.n = 2 /\ num_discarded = 2
    /\ Cardinality(DOMAIN women_prefs) = 2
    /\ ForcedForbiddenPair

\* the largest overall in the history
MaxOverall == CHOOSE v \in {results[k].overall : k \in DOMAIN results} :
                  \A k \in DOMAIN results : results[k].overall <= v

\* the first place in the history where it is attained
FirstMax == CHOOSE k \in DOMAIN results :
                /\ results[k].overall = MaxOverall
                /\ \A j \in 1..(k - 1) : results[j].overall # MaxOverall

\* C9: with an empty history there is no best; otherwise the best score is
\* the largest overall in the history and the best match is the match of the
\* earliest record that attains it.
C9_BestTracking ==
    IF results = <<>>
    THEN best = None /\ best_score = None
    ELSE best_score = Some(MaxOverall) /\ best = Some(results[FirstMax].match)

\* two recorded trials with the same overall and different matches: the
\* first one is the best
C9_Witness ==
    /\ Len(results) = 2
    /\ results[1].overall = results[2].overall
    /\ results[1].match # results[2].match
    /\ best = Some(results[1].match)

----------------------------------------------------------------------------
(* match/hungarian.py; a matrix is a function of the row index that gives  *)
(* a function of the column index, both counted from 1                     *)

\* _build_score_matrix with score_fn = score_exponential, past its assert
_build_score_matrix(agents, tasks, prefs) ==
    [r \in 1..Len(agents) |->
        [c \in 1..Len(agents) |-> score_exponential(tasks[c], prefs[agents[r]])]]

\* line 72 without .T: the receivers' matrix is left with receivers as rows
Transpose_none(mx) == mx

\* numpy's .T
Transpose(mx) == [r \in DOMAIN mx |-> [c \in DOMAIN mx |-> mx[c][r]]]

\* weight * w_score_matrix + (1 - weight) * m_score_matrix
Combine(wt, wm, mm) ==
    [r \in DOMAIN wm |->
        [c \in DOMAIN wm |-> FMul(wt, wm[r][c]) + FMul(Scale - wt, mm[r][c])]]

\* np.max of a matrix with at least one row
MatrixMax(mx) ==
    CHOOSE v \in {mx[r][c] : r \in DOMAIN mx, c \in DOMAIN mx} :
        \A r \in DOMAIN mx, c \in DOMAIN mx : mx[r][c] <= v

MatrixMin(mx) ==
    CHOOSE v \in {mx[r][c] : r \in DOMAIN mx, c \in DOMAIN mx} :
        \A r \in DOMAIN mx, c \in DOMAIN mx : mx[r][c] >= v

\* the conversion with the subtraction turned round: low scores get low costs
_score_to_cost_matrix_min(score_matrix) ==
    LET least == MatrixMin(score_matrix)
    IN  [r \in DOMAIN score_matrix |->
            [c \in DOMAIN score_matrix |-> score_matrix[r][c] - least]]

_score_to_cost_matrix(score_matrix) ==
    LET most == MatrixMax(score_matrix)
    IN  [r \in DOMAIN score_matrix |->
            [c \in DOMAIN score_matrix |-> most - score_matrix[r][c]]]

\* the sum of the entries an assignment picks: col[r] is the column of row r
Picked(mx, col) == SumOver([r \in DOMAIN mx |-> mx[r][col[r]]], DOMAIN mx)

\* scipy's linear_sum_assignment: the column assignments of least total cost,
\* any of which it may return
linear_sum_assignment(cost_matrix) ==
    LET totals == {Picked(cost_matrix, col) : col \in Perms(DOMAIN cost_matrix)}
        least == CHOOSE v \in totals : \A u \in totals : v <= u
    IN  {col \in Perms(DOMAIN cost_matrix) : Picked(cost_matrix, col) = least}

\* lines 67-77: the combined score matrix
ScoreMatrix(ws, ms, wp, mp, wt) ==
    Combine(wt, _build_score_matrix(ws, ms, wp),
            Transpose(_build_score_matrix(ms, ws, mp)))

\* hungarian.py lines 67-88
HSolve ==
    /\ hpc = "start"
    /\ Len(women) = Len(men)
    /\ Len(women) > 0
    /\ LET score_matrix == ScoreMatrix(women, men, hw_prefs, hm_prefs, weight)
           cost_matrix == _score_to_cost_matrix(score_matrix)
       IN  \E col_ind \in linear_sum_assignment(cost_matrix) :
              /\ h_score' = Picked(score_matrix, col_ind)
              /\ h_matches' = [w \in Range(women) |->
                                  men[col_ind[Index(women, w) + 1]]]
    /\ hpc' = "returned"
    /\ UNCHANGED <<hw_prefs, hm_prefs, women, men, weight, solver_vars,
                   controller_vars, score_vars>>

\* hungarian.py line 26: the assert of _build_score_matrix fails
HAssert ==
    /\ hpc = "start"
    /\ Len(women) # Len(men)
    /\ hpc' = "AssertionError"
    /\ UNCHANGED <<hw_prefs, hm_prefs, women, men, weight, h_matches, h_score,
                   solver_vars, controller_vars,
                   score_vars>>

\* hungarian.py line 50: np.max of a matrix without entries
HEmpty ==
    /\ hpc = "start"
    /\ Len(women) = Len(men)
    /\ Len(women) = 0
    /\ hpc' = "ValueError"
    /\ UNCHANGED <<hw_prefs, hm_prefs, women, men, weight, h_matches, h_score,
                   solver_vars, controller_vars,
                   score_vars>>

\* the orders in which a dict can hold the keys S; one order when there are 3
KeyOrders(S, natural) ==
    IF Cardinality(S) = 3 THEN {natural} ELSE Perms(S)

\* complete dicts of size 1 and 2, those of size 3 in which the first
\* proposer ranks the receivers in their key order, and arbitrary dicts over
\* at most two agents a side
HungarianInputs ==
    ValidInputs(1) \cup ValidInputs(2)
    \cup {in \in ValidInputs(3) : in.w[WomenIds[1]] = MenIds}
    \cup AnyInputs(2, 2)

InitHungarian ==
    /\ \E in \in HungarianInputs :
          /\ hw_prefs = in.w /\ hm_prefs = in.m
          /\ women \in KeyOrders(DOMAIN in.w, WomenIds)
          /\ men \in KeyOrders(DOMAIN in.m, MenIds)
    /\ weight \in Weights
    /\ h_matches = EmptyDict /\ h_score = 0
    /\ hpc = "start"
    /\ SolverIdle
    /\ ControllerIdle
    /\ ScoreIdle

NextHungarian == HSolve \/ HAssert \/ HEmpty

SpecHungarian == InitHungarian /\ [][NextHungarian]_vars

----------------------------------------------------------------------------
(* Properties of hungarian.solve                                           *)

\* the combined score of pairing proposer p with receiver r, from the two
\* preference lists
PairScore(p, r) ==
    FMul(weight, score_exponential(r, hw_prefs[p]))
    + FMul(Scale - weight, score_exponential(p, hm_prefs[r]))

\* the total combined score of a proposer-keyed match
TotalScore(mt) == SumOver([p \in DOMAIN mt |-> PairScore(p, mt[p])], DOMAIN mt)

\* the one-to-one maps of the proposers onto the receivers
Pairings ==
    {mt \in [DOMAIN hw_prefs -> DOMAIN hm_prefs] :
        /\ Range(mt) = DOMAIN hm_prefs
        /\ \A p, q \in DOMAIN mt : mt[p] = mt[q] => p = q}

\* C10: for complete dicts of equal size and any weight, the match that
\* hungarian.solve returns is a one-to-one map of the proposers onto the
\* receivers, and no other such map has a larger total combined score.
C10_Optimal ==
    (hpc = "returned" /\ WellFormed(hw_prefs, hm_prefs))
        => /\ h_matches \in Pairings
           /\ \A mt \in Pairings : TotalScore(mt) <= TotalScore(h_matches)

\* a call of size 3 with both sides weighted in which the pairings do not all
\* score the same and some proposer does not get her first choice
C10_Witness ==
    /\ hpc = "returned"
    /\ WellFormed(hw_prefs, hm_prefs)
    /\ Len(women) = 3
    /\ weight = Scale \div 2
    /\ \E mt \in Pairings : TotalScore(mt) < TotalScore(h_matches)
    /\ \E p \in DOMAIN h_matches : hw_prefs[p][1] # h_matches[p]

\* C11: the total that hungarian.solve returns equals the sum, over the pairs
\* (p, r) of the returned match, of weight * score(r, w_prefs[p]) +
\* (1 - weight) * score(p, m_prefs[r]) computed from the identifiers alone.
C11_RoundTrip ==
    hpc = "returned" => h_score = TotalScore(h_matches)

\* a call of size 2 whose dicts hold their keys in the reverse order, with both
\* sides weighted and the two receivers ranking the proposers differently
C11_Witness ==
    /\ hpc = "returned"
    /\ WellFormed(hw_prefs, hm_prefs)
    /\ women = <<"B", "A">> /\ men = <<"Y", "X">>
    /\ weight = Scale \div 2
    /\ hm_prefs["X"] # hm_prefs["Y"]
    /\ hw_prefs["A"] = hw_prefs["B"]

\* C12: a call of hungarian.solve whose sides differ in size, or in which a
\* preference list omits a member of the other side or names an outsider,
\* ends in an error and returns no match.
C12_FailFast ==
    (hpc # "start" /\ Malformed(hw_prefs, hm_prefs))
        => (hpc \in {"AssertionError", "ValueError"} /\ h_matches = EmptyDict)

\* the caller's three inputs of run_smp are left as they are by a step
InputsKept ==
    /\ women_prefs' = women_prefs
    /\ men_prefs' = men_prefs
    /\ blacklist' = blacklist

\* the completed dicts of the latest trial are still a completion of the
\* supplied ones after smp.solve has run on them
LatestTrialFromRaw ==
    (rpc \in {"loop", "exhausted", "done"} /\ trial > 0) =>
        [w |-> w_c, m |-> m_c] \in complete(women_prefs, men_prefs)

\* C13: no step of run_smp changes the supplied proposer dict, the supplied
\* receiver dict or the blacklist, and after every trial the completed dicts
\* the trial handed to smp.solve are still a completion of those supplied
\* dicts: complete and solve write to their own copies only.
C13_InputsNotMutated ==
    [][InputsKept]_vars /\ [](LatestTrialFromRaw)

\* two trials have run on supplied lists that complete had to extend, one
\* discarded by the blacklist and one recorded
C13_Witness ==
    /\ rpc = "loop" /\ trial = 2
    /\ num_discarded = 1 /\ Len(results) = 1
    /\ \E w \in DOMAIN women_prefs : Len(women_prefs[w]) < Len(w_c[w])
    /\ \E m \in DOMAIN men_prefs : Len(men_prefs[m]) < Len(m_c[m])

\* the proposals made so far: the entries popped from the working copies
Proposals ==
    SumOver([w \in DOMAIN w_prefs_i |-> Len(w_prefs_i[w]) - Len(w_prefs[w])],
            DOMAIN w_prefs_i)

\* on well-formed input of size n at most n * n proposals have been made
ProposalsBounded ==
    (pc \in {"loop", "returned"} /\ WellFormed(w_prefs_i, m_prefs_i)) =>
        LET n == Cardinality(DOMAIN w_prefs_i) IN Proposals <= n * n

\* on well-formed input the loop is left with nobody in the free queue
ExitsWithEmptyQueue ==
    (pc = "returned" /\ WellFormed(w_prefs_i, m_prefs_i)) => free = <<>>

\* an iteration takes the first entry off exactly one proposer's list
ConsumesOneEntry ==
    (pc = "loop" /\ pc' = "loop") =>
        /\ \E w \in DOMAIN w_prefs :
              /\ w_prefs[w] # <<>>
              /\ w_prefs' = [w_prefs EXCEPT ![w] = Tail(@)]
        /\ Proposals' = Proposals + 1

\* C14: on valid input of size n the proposal loop makes at most n * n
\* proposals, every iteration consumes exactly one entry of one proposer's
\* remaining list, and when the loop has exited the free queue is empty.
C14_BoundedProposals ==
    /\ [](ProposalsBounded)
    /\ [](ExitsWithEmptyQueue)
    /\ [][ConsumesOneEntry]_vars

\* a call of size 3 returned after n * n - n + 1 = 7 proposals
C14_Witness ==
    /\ pc = "returned"
    /\ WellFormed(w_prefs_i, m_prefs_i)
    /\ Cardinality(DOMAIN w_prefs_i) = 3
    /\ Proposals = 7

\* nobody waiting in the free queue has used up her list
NoExhaustedQueued ==
    pc = "loop" => \A k \in DOMAIN free : w_prefs[free[k]] # <<>>

\* C15: a proposer whose remaining list is empty is never in the free queue,
\* whether she was refused or jilted, and pop(0) is never applied to an empty
\* remaining list.
C15_NoExhaustedProposer ==
    NoExhaustedQueued /\ pc # "IndexError"

\* on well-formed input of size 3 a proposer has used up her list: refused or
\* jilted by two receivers, she holds her last choice and is not queued
C15_Witness ==
    /\ pc \in {"loop", "returned"}
    /\ WellFormed(w_prefs_i, m_prefs_i)
    /\ Cardinality(DOMAIN w_prefs_i) = 3
    /\ \E w \in done :
          /\ w_prefs[w] = <<>>
          /\ w \notin Range(free)
          /\ \E m \in DOMAIN matches :
                matches[m] = w /\ m = w_prefs_i[w][Len(w_prefs_i[w])]

\* in how many places proposer w is: entries of the free queue and receivers
\* holding her
Places(w) ==
    Cardinality({k \in DOMAIN free : free[k] = w})
        + Cardinality({m \in DOMAIN matches : matches[m] = w})

\* C19: whenever the loop condition is evaluated, every proposer is either
\* once in the free queue or the partner of exactly one receiver, never both
\* and never neither; so no proposer is held by two receivers, and each
\* receiver, being a key of matches, has at most one partner.
C19_ProposerPlacement ==
    pc = "loop" =>
        /\ \A w \in DOMAIN w_prefs : Places(w) = 1
        /\ Range(free) \cup Range(matches) = DOMAIN w_prefs
        /\ \A m1, m2 \in DOMAIN matches : matches[m1] = matches[m2] => m1 = m2

\* mid-run on well-formed input of size 3: somebody is matched, and somebody
\* already refused or jilted waits in the queue
C19_Witness ==
    /\ pc = "loop"
    /\ WellFormed(w_prefs_i, m_prefs_i)
    /\ Cardinality(DOMAIN w_prefs_i) = 3
    /\ matches # EmptyDict
    /\ \E k \in DOMAIN free : Len(w_prefs[free[k]]) < Len(w_prefs_i[free[k]])

\* a step of the loop leaves every matched receiver matched, and a receiver
\* whose partner changes ranks the new partner before the old one
ReceiverImproves ==
    pc = "loop" =>
        \A m \in DOMAIN matches :
            /\ m \in DOMAIN matches'
            /\ matches'[m] # matches[m] =>
                  Index(m_prefs_i[m], matches'[m]) < Index(m_prefs_i[m], matches[m])

\* C20: a receiver who has become matched stays matched for the rest of the
\* run, and each change of his partner is to a proposer strictly earlier in
\* his own list.
C20_ReceiverMonotone == [][ReceiverImproves]_vars

\* receiver m is some proposer's first choice and ends with another proposer
\* whose first choice he was not. First proposals all come before any second
\* proposal (the queue is first in, first out), so m held somebody when his
\* final partner proposed and changed partner for her.
C20_Witness ==
    /\ pc = "returned"
    /\ WellFormed(w_prefs_i, m_prefs_i)
    /\ \E m \in DOMAIN matches : \E w2 \in DOMAIN w_prefs_i :
          /\ w2 # matches[m]
          /\ w_prefs_i[w2][1] = m
          /\ w_prefs_i[matches[m]][1] # m

\* every trial made so far was either counted as discarded or recorded
TrialAccounting ==
    rpc # "error" => num_discarded + Len(results) = trial

\* each record holds a completion of the supplied dicts and the match that
\* smp.solve returns on the dicts it holds
RecordsFaithful ==
    \A k \in DOMAIN results :
        LET r == results[k]
        IN  /\ [w |-> r.w_c, m |-> r.m_c] \in complete(women_prefs, men_prefs)
            /\ \E order \in Perms(DOMAIN r.w_c) :
                  LET sol == solve(r.w_c, r.m_c, order)
                  IN  sol.pc = "returned" /\ Invert(sol.matches) = r.match

\* a trial that ends without an exception either adds one to the discard
\* counter and leaves the history alone, or leaves the counter alone and puts
\* at the end of the history a record of the dicts and the match of that trial
OneOutcomePerTrial ==
    (trial' = trial + 1 /\ rpc' # "error") =>
        \/ /\ num_discarded' = num_discarded + 1
           /\ results' = results
        \/ /\ num_discarded' = num_discarded
           /\ Len(results') = Len(results) + 1
           /\ SubSeq(results', 1, Len(results)) = results
           /\ LET r == results'[Len(results')]
              IN  /\ r.w_c = w_c' /\ r.m_c = m_c'
                  /\ r.match = TrialMatch(reverse_matches')

\* C16: after k trials that ended without an exception the discard counter
\* plus the length of the history is k; each such trial was either counted as
\* discarded or appended to the history, never both and never neither; the
\* history is in trial order; and each record holds the completed dicts that
\* trial used and the match they produced.
C16_TrialAccounting ==
    /\ [](TrialAccounting)
    /\ [](RecordsFaithful)
    /\ [][OneOutcomePerTrial]_vars

\* a finished run of two trials on lists that had to be completed: the first
\* was discarded, the second recorded
C16_Witness ==
    /\ rpc = "done"
    /\ trial = 2 /\ num_discarded = 1 /\ Len(results) = 1
    /\ results[1].match = TrialMatch(reverse_matches)
    /\ results[1].w_c = w_c /\ results[1].w_c # women_prefs

\* the agents of one side whom mt gives a partner from their supplied list
Satisfied(mt, prefs) == {x \in DOMAIN mt : mt[x] \in Range(prefs[x])}

\* the record r scores an agent 0 when the partner is not in the agent's
\* supplied list, whatever the completed list says
CompletionOnlyScoresZero(r) ==
    /\ \A w \in DOMAIN r.match :
          w \notin Satisfied(r.match, women_prefs) => r.w_scores[w] = 0
    /\ \A m \in DOMAIN r.m_scores :
          LET rm == [x \in DOMAIN r.m_scores |->
                        CHOOSE w \in DOMAIN r.match : r.match[w] = x]
          IN  m \notin Satisfied(rm, men_prefs) => r.m_scores[m] = 0

\* with the binary scorer, the identity warper and no boost the overall of r
\* is the weighted fraction of agents matched within their supplied lists
OverallIsWeightedFraction(r) ==
    (args.scorer = "one_zero" /\ args.warper = "identity" /\ args.boost = 0) =>
        LET rm == [x \in DOMAIN r.m_scores |->
                      CHOOSE w \in DOMAIN r.match : r.match[w] = x]
            sw == Cardinality(Satisfied(r.match, women_prefs))
            sm == Cardinality(Satisfied(rm, men_prefs))
            n == Cardinality(DOMAIN women_prefs)
        IN  /\ r.overall = (args.weight * sw + (Scale - args.weight) * sm) \div n
            /\ 0 <= r.overall /\ r.overall <= Scale

\* C18: run_smp scores every recorded trial against the supplied lists, not
\* the completed ones: an agent whose partner was only added by completion
\* scores 0, and under the default scoring (binary scorer, identity warper,
\* boost 0) the overall score is the weighted fraction of agents matched to
\* somebody on their supplied list, between 0 and 1.
C18_ScoredAgainstSupplied ==
    \A k \in DOMAIN results :
        CompletionOnlyScoresZero(results[k]) /\ OverallIsWeightedFraction(results[k])

\* default scoring, size 2: one proposer got a receiver she had listed, the
\* other a receiver only completion gave her, and the overall is strictly
\* between 0 and 1
C18_Witness ==
    /\ Len(results) >= 1
    /\ args.scorer = "one_zero" /\ args.warper = "identity" /\ args.boost = 0
    /\ Cardinality(DOMAIN women_prefs) = 2
    /\ Cardinality(Satisfied(results[1].match, women_prefs)) = 1
    /\ \E w \in DOMAIN women_prefs :
          /\ results[1].match[w] \notin Range(women_prefs[w])
          /\ results[1].match[w] \in Range(results[1].w_c[w])
          /\ results[1].w_scores[w] = 0
    /\ 0 < results[1].overall /\ results[1].overall < Scale

\* boost returns 0 for a base score that is not positive
ZeroStaysZero ==
    (boost_out # None /\ boost_x <= 0) => boost_out[1] = 0

StableMatchings(w_in, m_in) ==
    {mt \in [DOMAIN m_in -> DOMAIN w_in] :
        Bijection(w_in, m_in, mt) /\ Stable(w_in, m_in, mt)}

\* the receiver whom mt gives to proposer w
PartnerOf(mt, w) == CHOOSE m \in DOMAIN mt : mt[m] = w

\* in mt every proposer has the receiver she ranks highest among those she
\* has in any stable match
ProposerOptimal(w_in, m_in, mt) ==
    \A w \in DOMAIN w_in : \A st \in StableMatchings(w_in, m_in) :
        Index(w_in[w], PartnerOf(mt, w)) <= Index(w_in[w], PartnerOf(st, w))

\* C21: for complete duplicate-free dicts of equal size the match solve
\* returns is the same for every order of the shuffled queue, and it is the
\* proposer-optimal stable match: every proposer has the best receiver she
\* has in any stable match.
C21_OrderIndependence ==
    (pc = "returned" /\ WellFormed(w_prefs_i, m_prefs_i)) =>
        /\ matches \in StableMatchings(w_prefs_i, m_prefs_i)
        /\ ProposerOptimal(w_prefs_i, m_prefs_i, matches)
        /\ \A order \in Perms(DOMAIN w_prefs_i) :
              solve(w_prefs_i, m_prefs_i, order).matches = matches

\* a returned call of size 3 on dicts that have several stable matches, in
\* which some proposer was refused or jilted on the way and some receiver
\* would be better off in another stable match
C21_Witness ==
    /\ pc = "returned"
    /\ WellFormed(w_prefs_i, m_prefs_i)
    /\ Cardinality(DOMAIN w_prefs_i) = 3
    /\ Cardinality(StableMatchings(w_prefs_i, m_prefs_i)) >= 2
    /\ \E m \in DOMAIN matches : w_prefs_i[matches[m]][1] # m
    /\ \E st \in StableMatchings(w_prefs_i, m_prefs_i) : \E m \in DOMAIN matches :
          Index(m_prefs_i[m], st[m]) < Index(m_prefs_i[m], matches[m])

====
